---------------------------- MODULE Spec2Model ----------------------------
(***************************************************************************)
(* A model of loci.py: the coverage of a list of loci by a set of reads.   *)
(*                                                                         *)
(* Text is modelled as a sequence of one-character strings, so that        *)
(* split(), int(), rstrip() and str() are computed as Python computes      *)
(* them.  Lists keep Python's 0-based indices through At and SetAt.  The   *)
(* reads dict is a sequence of (key, count) entries in insertion order,    *)
(* which is the order a Python dict iterates in.                           *)
(***************************************************************************)
EXTENDS Integers, Sequences, FiniteSets, TLC

(***************************************************************************)
(* Bounds of the model: the number of data rows of the two input files,    *)
(* and how many times process is applied in the re-application             *)
(* specification SpecTwice.                                                *)
(***************************************************************************)
MaxLoci == 2

MaxReads == 3

MaxPasses == 2

(***************************************************************************)
(* The rows the input files are drawn from (without their line ends).      *)
(* "100,50" is the interval [100,150), "140,20,x" is [140,160) with a      *)
(* third field; "x,1" has a non-integer start and "3" has no length.       *)
(* The loci rows are the start of the first read, its last covered         *)
(* position, its end (with a second field) and a non-integer position.     *)
(***************************************************************************)
ReadPool ==
  { <<"1","0","0",",","5","0">>,
    <<"1","4","0",",","2","0",",","x">>,
    <<"x",",","1">>,
    <<"3">> }

LociPool ==
  { <<"1","0","0">>,
    <<"1","4","9">>,
    <<"1","5","0",",","9">>,
    <<"x">> }

LociHeader == <<"p","o","s">>

ReadsHeader == <<"s",",","l">>

ArgCounts == {3, 4, 5}

-----------------------------------------------------------------------------
(* Python's list indexing, 0-based. *)
At(list, i) == list[i + 1]

SetAt(list, i, v) == [list EXCEPT ![i + 1] = v]

SeqsUpTo(S, n) == UNION { [1..k -> S] : k \in 0..n }

-----------------------------------------------------------------------------
(* str.split(sep): the fields between the separators; always >= 1 field. *)
RECURSIVE split(_, _)
split(s, sep) ==
  IF \E i \in 1..Len(s) : s[i] = sep
    THEN LET i == CHOOSE k \in 1..Len(s) :
                    s[k] = sep /\ \A j \in 1..(k - 1) : s[j] # sep
         IN <<SubSeq(s, 1, i - 1)>> \o split(SubSeq(s, i + 1, Len(s)), sep)
    ELSE <<s>>

(* str.rstrip(chars): drop every trailing character that is in chars. *)
RECURSIVE rstrip(_, _)
rstrip(s, chars) ==
  IF s # <<>> /\ s[Len(s)] \in chars
    THEN rstrip(SubSeq(s, 1, Len(s) - 1), chars)
    ELSE s

RECURSIVE lstrip(_, _)
lstrip(s, chars) ==
  IF s # <<>> /\ Head(s) \in chars THEN lstrip(Tail(s), chars) ELSE s

Whitespace == {" ", "\n", "\t", "\r"}

Digits == {"0", "1", "2", "3", "4", "5", "6", "7", "8", "9"}

DigitVal(c) ==
  CASE c = "0" -> 0 [] c = "1" -> 1 [] c = "2" -> 2 [] c = "3" -> 3
    [] c = "4" -> 4 [] c = "5" -> 5 [] c = "6" -> 6 [] c = "7" -> 7
    [] c = "8" -> 8 [] c = "9" -> 9

RECURSIVE DigitsValue(_)
DigitsValue(ds) ==
  IF ds = <<>> THEN 0
  ELSE 10 * DigitsValue(SubSeq(ds, 1, Len(ds) - 1)) + DigitVal(ds[Len(ds)])

(***************************************************************************)
(* int(text): surrounding whitespace is dropped, one sign is allowed, and  *)
(* what is left must be one or more digits; anything else is a ValueError  *)
(* (ok = FALSE).                                                           *)
(***************************************************************************)
int(s) ==
  LET t      == rstrip(lstrip(s, Whitespace), Whitespace)
      signed == t # <<>> /\ Head(t) \in {"+", "-"}
      body   == IF signed THEN Tail(t) ELSE t
      ok     == body # <<>> /\ \A i \in 1..Len(body) : body[i] \in Digits
      mag    == IF ok THEN DigitsValue(body) ELSE 0
  IN [ok |-> ok, val |-> IF signed /\ Head(t) = "-" THEN 0 - mag ELSE mag]

DigitChar(d) == <<"0", "1", "2", "3", "4", "5", "6", "7", "8", "9">>[d + 1]

RECURSIVE NatStr(_)
NatStr(n) ==
  IF n < 10 THEN <<DigitChar(n)>> ELSE NatStr(n \div 10) \o <<DigitChar(n % 10)>>

(* str(n) of an integer. *)
str(n) == IF n < 0 THEN <<"-">> \o NatStr(0 - n) ELSE NatStr(n)

(* itertools.islice(lines, start, None) *)
islice(lines, start) == SubSeq(lines, start + 1, Len(lines))

-----------------------------------------------------------------------------
VARIABLES
  num_args,      \* len(argv)
  lociFile,      \* the file argv[1] names: [exists, lines]
  readsFile,     \* the file argv[2] names: [exists, lines]
  outFile,       \* the file argv[3] names: [exists, lines]
  pc,            \* where main is
  printed,       \* the diagnostics written so far
  exit_status,   \* the process's exit status, -1 while it runs
  loci,          \* main's list: position, coverage, position, coverage, ...
  reads,         \* main's dict, in insertion order: <<[key, count], ...>>
  loci_fd,       \* init_poscov: data lines consumed
  reads_fd,      \* init_reads: data lines consumed
  num_records,   \* init_reads: its record counter
  each_loci,     \* process: index of the current locus pair
  each_key,      \* process: keys of reads already visited for this locus
  each_field,    \* output_poscov: index of the next pair to write
  passes,        \* history: how many times process has returned
  annotated      \* history: the loci list when process first returned

vars == <<num_args, lociFile, readsFile, outFile, pc, printed, exit_status,
          loci, reads, loci_fd, reads_fd, num_records, each_loci, each_key,
          each_field, passes, annotated>>

(* The lines a text file iterates as: every row ends in a newline, except
   that the last one does not when the file has no final newline. *)
FileLines(header, rows, final_newline) ==
  LET all == <<header>> \o rows
  IN [i \in 1..Len(all) |->
        IF i = Len(all) /\ ~final_newline THEN all[i] ELSE all[i] \o <<"\n">>]

Missing == [exists |-> FALSE, lines |-> <<>>]

LociFiles ==
  { [exists |-> TRUE, lines |-> FileLines(LociHeader, rows, TRUE)] :
      rows \in SeqsUpTo(LociPool, MaxLoci) }

ReadsFiles ==
  { [exists |-> TRUE, lines |-> FileLines(ReadsHeader, rows, nl)] :
      rows \in SeqsUpTo(ReadPool, MaxReads), nl \in BOOLEAN }

(***************************************************************************)
(* main, lines 235-236, before check_args.  With a wrong argument count    *)
(* the two paths are never looked at, so they are left missing there.      *)
(***************************************************************************)
Init ==
  /\ num_args \in ArgCounts
  /\ lociFile \in {Missing} \cup (IF num_args = 4 THEN LociFiles ELSE {})
  /\ readsFile \in {Missing} \cup (IF num_args = 4 THEN ReadsFiles ELSE {})
  /\ outFile = Missing
  /\ pc = "check_args"
  /\ printed = <<>>
  /\ exit_status = -1
  /\ loci = <<>>
  /\ reads = <<>>
  /\ loci_fd = 0
  /\ reads_fd = 0
  /\ num_records = 0
  /\ each_loci = 0
  /\ each_key = 0
  /\ each_field = 0
  /\ passes = 0
  /\ annotated = <<>>

-----------------------------------------------------------------------------
(* What an uncaught exception does to the run: the interpreter writes the
   traceback and the process ends with status 1. *)
Crash(exception) ==
  /\ pc' = "crashed"
  /\ printed' = Append(printed, exception)
  /\ exit_status' = 1

(* A variant of check_args that tests the second path only when the first
   one exists (an elif in place of the second if). *)
check_args_elif(n, exists1, exists2) ==
  IF n # 4
    THEN [status |-> FALSE, out |-> <<"usage">>]
    ELSE [status |-> exists1 /\ exists2,
          out    |-> IF ~exists1 THEN <<"argv[1] does not exist">>
                     ELSE IF ~exists2 THEN <<"argv[2] does not exist">>
                     ELSE <<>>]

(***************************************************************************)
(* check_args(argv): the status it returns and the diagnostics it prints.  *)
(* exists1 and exists2 are os.path.exists(argv[1]) and (argv[2]).          *)
(***************************************************************************)
check_args(n, exists1, exists2) ==
  IF n # 4
    THEN [status |-> FALSE, out |-> <<"usage">>]
    ELSE [status |-> exists1 /\ exists2,
          out    |-> (IF ~exists1 THEN <<"argv[1] does not exist">> ELSE <<>>)
                       \o (IF ~exists2 THEN <<"argv[2] does not exist">> ELSE <<>>)]

(* main, lines 238-239: sys.exit() with no argument is exit status 0. *)
CheckArgs ==
  /\ pc = "check_args"
  /\ LET r == check_args(num_args, lociFile.exists, readsFile.exists)
     IN /\ printed' = printed \o r.out
        /\ IF r.status
             THEN pc' = "init_poscov" /\ UNCHANGED exit_status
             ELSE pc' = "exited" /\ exit_status' = 0
  /\ UNCHANGED <<num_args, lociFile, readsFile, outFile, loci, reads, loci_fd,
                 reads_fd, num_records, each_loci, each_key, each_field,
                 passes, annotated>>

-----------------------------------------------------------------------------
(* init_poscov: the position of a line, and the two appends of one row. *)
LociField(each_line) == int(split(each_line, ",")[1])

(* A variant of LociAppend that drops a position the list already holds. *)
LociAppendDistinct(l, each_line) ==
  IF \E n \in 1..(Len(l) \div 2) : l[2 * n - 1] = LociField(each_line).val
    THEN l
    ELSE l \o <<LociField(each_line).val, 0>>

LociAppend(l, each_line) == l \o <<LociField(each_line).val, 0>>

LociData == islice(lociFile.lines, 1)

InitPoscovLine ==
  /\ pc = "init_poscov"
  /\ loci_fd < Len(LociData)
  /\ LociField(LociData[loci_fd + 1]).ok
  /\ loci' = LociAppend(loci, LociData[loci_fd + 1])
  /\ loci_fd' = loci_fd + 1
  /\ UNCHANGED <<num_args, lociFile, readsFile, outFile, pc, printed,
                 exit_status, reads, reads_fd, num_records, each_loci,
                 each_key, each_field, passes, annotated>>

InitPoscovError ==
  /\ pc = "init_poscov"
  /\ loci_fd < Len(LociData)
  /\ ~LociField(LociData[loci_fd + 1]).ok
  /\ Crash("Traceback: ValueError")
  /\ UNCHANGED <<num_args, lociFile, readsFile, outFile, loci, reads, loci_fd,
                 reads_fd, num_records, each_loci, each_key, each_field,
                 passes, annotated>>

InitPoscovReturn ==
  /\ pc = "init_poscov"
  /\ loci_fd = Len(LociData)
  /\ pc' = "init_reads"
  /\ UNCHANGED <<num_args, lociFile, readsFile, outFile, printed, exit_status,
                 loci, reads, loci_fd, reads_fd, num_records, each_loci,
                 each_key, each_field, passes, annotated>>

-----------------------------------------------------------------------------
(* The dict operations init_reads and process use. *)
HasKey(r, k) == \E i \in 1..Len(r) : r[i].key = k

Lookup(r, k) == r[CHOOSE i \in 1..Len(r) : r[i].key = k].count

(* A variant of ReadsUpdate that leaves the count of a repeated key alone. *)
ReadsUpdateNoBump(r, the_key) ==
  IF HasKey(r, the_key) THEN r ELSE Append(r, [key |-> the_key, count |-> 1])

(* init_reads, lines 165-170: bump the count of a key, or insert it with 1. *)
ReadsUpdate(r, the_key) ==
  IF HasKey(r, the_key)
    THEN [i \in 1..Len(r) |->
            IF r[i].key = the_key
              THEN [key |-> the_key, count |-> r[i].count + 1]
              ELSE r[i]]
    ELSE Append(r, [key |-> the_key, count |-> 1])

ReadsData == islice(readsFile.lines, 1)

InitReadsLine ==
  /\ pc = "init_reads"
  /\ reads_fd < Len(ReadsData)
  /\ num_records' = num_records + 1
  /\ reads' = ReadsUpdate(reads, rstrip(ReadsData[reads_fd + 1], {"\n"}))
  /\ reads_fd' = reads_fd + 1
  /\ UNCHANGED <<num_args, lociFile, readsFile, outFile, pc, printed,
                 exit_status, loci, loci_fd, each_loci, each_key, each_field,
                 passes, annotated>>

InitReadsReturn ==
  /\ pc = "init_reads"
  /\ reads_fd = Len(ReadsData)
  /\ pc' = "process"
  /\ each_loci' = 0
  /\ each_key' = 0
  /\ UNCHANGED <<num_args, lociFile, readsFile, outFile, printed, exit_status,
                 loci, reads, loci_fd, reads_fd, num_records, each_field,
                 passes, annotated>>

-----------------------------------------------------------------------------
(* A variant of KeyInterval that takes an unparseable key for an empty
   interval instead of raising. *)
KeyIntervalLenient(each_key_text) ==
  LET each_fields == split(each_key_text, ",")
      start       == int(each_fields[1])
      length      == IF Len(each_fields) >= 2 THEN int(each_fields[2])
                     ELSE [ok |-> FALSE, val |-> 0]
  IN [ok    |-> TRUE,
      start |-> start.val,
      end   |-> IF start.ok /\ length.ok THEN start.val + length.val
                ELSE start.val]

(***************************************************************************)
(* process, lines 212-215: the interval of a key.  ok is FALSE where the   *)
(* code raises: int() of field 0 or of field 1 (ValueError), or no field 1 *)
(* (IndexError).                                                           *)
(***************************************************************************)
KeyInterval(each_key_text) ==
  LET each_fields == split(each_key_text, ",")
      start       == int(each_fields[1])
      length      == IF Len(each_fields) >= 2 THEN int(each_fields[2])
                     ELSE [ok |-> FALSE, val |-> 0]
  IN [ok    |-> start.ok /\ length.ok,
      start |-> start.val,
      end   |-> start.val + length.val]

(* Variants of Covers: the start excluded, and the end included. *)
CoversStartExclusive(the_locus, start, end) == the_locus > start /\ the_locus < end

CoversEndInclusive(the_locus, start, end) == the_locus >= start /\ the_locus <= end

(* process, line 217 *)
Covers(the_locus, start, end) == the_locus >= start /\ the_locus < end

(* Variants of Accumulate: the count assigned instead of added, and the
   count added to the position slot instead of the coverage slot. *)
AccumulateAssign(l, i, count) == SetAt(l, i + 1, count)

AccumulateIntoPosition(l, i, count) == SetAt(l, i, At(l, i) + count)

(* process, line 219 *)
Accumulate(l, i, count) == SetAt(l, i + 1, At(l, i + 1) + count)

(* A variant of ProcessEntry that adds only to a coverage slot that is
   still 0. *)
ProcessEntryOnce(l, i, entry) ==
  LET iv == KeyInterval(entry.key)
  IN IF Covers(At(l, i), iv.start, iv.end) /\ At(l, i + 1) = 0
       THEN Accumulate(l, i, entry.count)
       ELSE l

(* One pass of the inner loop's body, lines 212-219. *)
ProcessEntry(l, i, entry) ==
  LET iv == KeyInterval(entry.key)
  IN IF Covers(At(l, i), iv.start, iv.end)
       THEN Accumulate(l, i, entry.count)
       ELSE l

(* The inner loop over the keys of r, in r's order, for the locus at i. *)
RECURSIVE ProcessKeys(_, _, _)
ProcessKeys(l, i, r) ==
  IF r = <<>> THEN l ELSE ProcessKeys(ProcessEntry(l, i, r[1]), i, Tail(r))

(* The outer loop from the locus at i on. *)
RECURSIVE ProcessFrom(_, _, _)
ProcessFrom(l, i, r) ==
  IF i < Len(l) THEN ProcessFrom(ProcessKeys(l, i, r), i + 2, r) ELSE l

(* process(loci, reads) run to its return, for reads whose keys all parse. *)
process(l, r) == ProcessFrom(l, 0, r)

ProcessKey ==
  /\ pc = "process"
  /\ each_loci < Len(loci)
  /\ each_key < Len(reads)
  /\ KeyInterval(reads[each_key + 1].key).ok
  /\ loci' = ProcessEntry(loci, each_loci, reads[each_key + 1])
  /\ each_key' = each_key + 1
  /\ UNCHANGED <<num_args, lociFile, readsFile, outFile, pc, printed,
                 exit_status, reads, loci_fd, reads_fd, num_records,
                 each_loci, each_field, passes, annotated>>

ProcessKeyError ==
  /\ pc = "process"
  /\ each_loci < Len(loci)
  /\ each_key < Len(reads)
  /\ ~KeyInterval(reads[each_key + 1].key).ok
  /\ Crash("Traceback: ValueError or IndexError")
  /\ UNCHANGED <<num_args, lociFile, readsFile, outFile, loci, reads, loci_fd,
                 reads_fd, num_records, each_loci, each_key, each_field,
                 passes, annotated>>

(* line 223, after the inner loop has visited every key *)
ProcessNextLocus ==
  /\ pc = "process"
  /\ each_loci < Len(loci)
  /\ each_key = Len(reads)
  /\ each_loci' = each_loci + 2
  /\ each_key' = 0
  /\ UNCHANGED <<num_args, lociFile, readsFile, outFile, pc, printed,
                 exit_status, loci, reads, loci_fd, reads_fd, num_records,
                 each_field, passes, annotated>>

(* line 206 false: process returns to main, which goes on to the output. *)
ProcessReturn ==
  /\ pc = "process"
  /\ ~(each_loci < Len(loci))
  /\ pc' = "output_poscov"
  /\ passes' = passes + 1
  /\ annotated' = IF passes = 0 THEN loci ELSE annotated
  /\ UNCHANGED <<num_args, lociFile, readsFile, outFile, printed, exit_status,
                 loci, reads, loci_fd, reads_fd, num_records, each_loci,
                 each_key, each_field>>

-----------------------------------------------------------------------------
OutputHeader ==
  <<"p","o","s","i","t","i","o","n",","," ",
    "c","o","v","e","r","a","g","e","\n">>

(* output_poscov, lines 126-127: the row of one pair *)
OutputLine(l, i) == str(At(l, i)) \o <<",", " ">> \o str(At(l, i + 1)) \o <<"\n">>

(* lines 114-120: the file is opened for overwrite and the header written *)
OutputOpen ==
  /\ pc = "output_poscov"
  /\ ~outFile.exists
  /\ outFile' = [exists |-> TRUE, lines |-> <<OutputHeader>>]
  /\ each_field' = 0
  /\ UNCHANGED <<num_args, lociFile, readsFile, pc, printed, exit_status,
                 loci, reads, loci_fd, reads_fd, num_records, each_loci,
                 each_key, passes, annotated>>

OutputRow ==
  /\ pc = "output_poscov"
  /\ outFile.exists
  /\ each_field < Len(loci)
  /\ outFile' = [outFile EXCEPT !.lines = Append(@, OutputLine(loci, each_field))]
  /\ each_field' = each_field + 2
  /\ UNCHANGED <<num_args, lociFile, readsFile, pc, printed, exit_status,
                 loci, reads, loci_fd, reads_fd, num_records, each_loci,
                 each_key, passes, annotated>>

(* output_poscov returns and main falls off its end: exit status 0 *)
OutputReturn ==
  /\ pc = "output_poscov"
  /\ outFile.exists
  /\ ~(each_field < Len(loci))
  /\ pc' = "done"
  /\ exit_status' = 0
  /\ UNCHANGED <<num_args, lociFile, readsFile, outFile, printed, loci, reads,
                 loci_fd, reads_fd, num_records, each_loci, each_key,
                 each_field, passes, annotated>>

(***************************************************************************)
(* process called again on the list it has just annotated, with the same   *)
(* reads: not something main does, but what a caller of process can do.    *)
(***************************************************************************)
Reprocess ==
  /\ pc = "output_poscov"
  /\ ~outFile.exists
  /\ passes < MaxPasses
  /\ pc' = "process"
  /\ each_loci' = 0
  /\ each_key' = 0
  /\ UNCHANGED <<num_args, lociFile, readsFile, outFile, printed, exit_status,
                 loci, reads, loci_fd, reads_fd, num_records, each_field,
                 passes, annotated>>

-----------------------------------------------------------------------------
Next ==
  \/ CheckArgs
  \/ InitPoscovLine
  \/ InitPoscovError
  \/ InitPoscovReturn
  \/ InitReadsLine
  \/ InitReadsReturn
  \/ ProcessKey
  \/ ProcessKeyError
  \/ ProcessNextLocus
  \/ ProcessReturn
  \/ OutputOpen
  \/ OutputRow
  \/ OutputReturn

Spec == Init /\ [][Next]_vars

NextTwice == Next \/ Reprocess

SpecTwice == Init /\ [][NextTwice]_vars

-----------------------------------------------------------------------------
(* Definitions the properties are stated with. *)
Range(f) == { f[i] : i \in DOMAIN f }

NumLoci == Len(loci) \div 2

Position(l, n) == l[2 * n - 1]

Coverage(l, n) == l[2 * n]

(* The n-th comma-delimited field of a text, as an integer. *)
Field(text, n) == int(split(text, ",")[n]).val

(* A text that splits into at least two integer fields. *)
WellFormed(text) ==
  LET f == split(text, ",")
  IN Len(f) >= 2 /\ int(f[1]).ok /\ int(f[2]).ok

(* The read records consumed so far, without their line ends. *)
Consumed == [i \in 1..reads_fd |-> rstrip(readsFile.lines[i + 1], {"\n"})]

Occurrences(seq, x) == Cardinality({ i \in 1..Len(seq) : seq[i] = x })

RECURSIVE SumOfCounts(_)
SumOfCounts(r) == IF r = <<>> THEN 0 ELSE r[1].count + SumOfCounts(Tail(r))

(* start <= p < start + length, for the interval a record's text states *)
Contains(text, p) == Field(text, 1) <= p /\ p < Field(text, 1) + Field(text, 2)

(* The sum of the multiplicities of the stored keys whose interval holds p. *)
RECURSIVE KeySum(_, _)
KeySum(r, p) ==
  IF r = <<>> THEN 0
  ELSE (IF Contains(r[1].key, p) THEN r[1].count ELSE 0) + KeySum(Tail(r), p)

(* The number of raw read records whose interval holds p. *)
RawCount(p) == Cardinality({ i \in 1..Len(Consumed) : Contains(Consumed[i], p) })

ProcessReturned == pc \in {"output_poscov", "done"}

-----------------------------------------------------------------------------
(***************************************************************************)
(* C1: once process has returned on a list whose coverage slots were 0,    *)
(* every locus's coverage is the sum of the multiplicities of the stored   *)
(* keys whose interval [start, start+length) holds its position, which is  *)
(* the number of raw read records whose interval holds it; a locus no      *)
(* interval holds has coverage 0.                                          *)
(***************************************************************************)
C1_CoverageIsWeightedCount ==
  (passes = 1 /\ ProcessReturned) =>
    \A n \in 1..NumLoci :
      /\ Coverage(loci, n) = KeySum(reads, Position(loci, n))
      /\ Coverage(loci, n) = RawCount(Position(loci, n))
      /\ (\A i \in 1..Len(reads) : ~Contains(reads[i].key, Position(loci, n)))
           => Coverage(loci, n) = 0

(* Three records, two of them the same: 100 is in one interval, 149 in both. *)
C1_Witness ==
  /\ passes = 1
  /\ ProcessReturned
  /\ num_records = 3
  /\ Len(reads) = 2
  /\ loci = <<100, 2, 149, 3>>

(***************************************************************************)
(* C2: after init_reads has consumed any prefix of the records, reads has  *)
(* one entry per distinct stripped text of the prefix, each count is the   *)
(* number of times that text occurred in it (so it is >= 1), and the       *)
(* counts add up to the number of records consumed.                        *)
(***************************************************************************)
C2_ReadsCountOccurrences ==
  /\ \A i, j \in 1..Len(reads) : reads[i].key = reads[j].key => i = j
  /\ { reads[i].key : i \in 1..Len(reads) } = Range(Consumed)
  /\ \A i \in 1..Len(reads) :
       /\ reads[i].count = Occurrences(Consumed, reads[i].key)
       /\ reads[i].count >= 1
  /\ SumOfCounts(reads) = reads_fd
  /\ num_records = reads_fd

(* The third record, with no line end, repeats the text of an earlier one. *)
C2_Witness ==
  /\ pc = "init_reads"
  /\ reads_fd = 3
  /\ Len(reads) = 2
  /\ LET last == readsFile.lines[4]
     IN /\ last[Len(last)] # "\n"
        /\ Lookup(reads, last) = 2

(***************************************************************************)
(* C3: a step of process's inner loop adds the key's multiplicity to the   *)
(* locus's coverage if and only if start <= position < start + length,     *)
(* and leaves the coverage as it is otherwise.                             *)
(***************************************************************************)
C3_HalfOpenMembership ==
  [][ (pc = "process" /\ pc' = "process" /\ each_key' = each_key + 1) =>
        LET entry  == reads[each_key + 1]
            start  == Field(entry.key, 1)
            length == Field(entry.key, 2)
            p      == At(loci, each_loci)
        IN IF start <= p /\ p < start + length
             THEN At(loci', each_loci + 1) = At(loci, each_loci + 1) + entry.count
             ELSE At(loci', each_loci + 1) = At(loci, each_loci + 1) ]_vars

(* The read 100,50 has been counted at position 100 and not at 150. *)
C3_Witness ==
  /\ pc = "process"
  /\ Len(reads) = 1
  /\ Field(reads[1].key, 1) = 100
  /\ Field(reads[1].key, 2) = 50
  /\ each_loci = 2
  /\ each_key = 1
  /\ loci = <<100, reads[1].count, 150, 0>>

(***************************************************************************)
(* C4: init_poscov appends one (position, 0) pair per loci row in input    *)
(* order, duplicates included, and output_poscov writes one row per pair   *)
(* in list order: the i-th output row carries the i-th input row's         *)
(* position, and a finished run has as many data rows as the input.        *)
(***************************************************************************)
C4_OneRowPerLocus ==
  /\ Len(loci) = 2 * loci_fd
  /\ \A n \in 1..loci_fd :
       /\ Position(loci, n) = Field(lociFile.lines[n + 1], 1)
       /\ pc = "init_poscov" => Coverage(loci, n) = 0
  /\ outFile.exists =>
       /\ Len(outFile.lines) = 1 + each_field \div 2
       /\ \A n \in 1..(Len(outFile.lines) - 1) :
            /\ Field(outFile.lines[n + 1], 1) = Field(lociFile.lines[n + 1], 1)
            /\ Field(outFile.lines[n + 1], 2) = Coverage(loci, n)
  /\ pc = "done" => Len(outFile.lines) = Len(lociFile.lines)

(* Two input rows with the same position, and two output rows. *)
C4_Witness ==
  /\ pc = "done"
  /\ Len(lociFile.lines) = 3
  /\ Len(outFile.lines) = 3
  /\ Field(lociFile.lines[2], 1) = Field(lociFile.lines[3], 1)
  /\ Field(outFile.lines[2], 1) = Field(outFile.lines[3], 1)

(***************************************************************************)
(* C5 as stated: with a loci row whose position is not an integer, or a    *)
(* read record that does not split into two integer fields, the output     *)
(* phase is never reached and no output file is written, whatever the      *)
(* inputs, an empty loci list included.                                    *)
(***************************************************************************)
MalformedLoci ==
  \E i \in 2..Len(lociFile.lines) : ~int(split(lociFile.lines[i], ",")[1]).ok

MalformedReads ==
  \E i \in 2..Len(readsFile.lines) :
    ~WellFormed(rstrip(readsFile.lines[i], {"\n"}))

NoOutput == ~outFile.exists /\ pc \notin {"output_poscov", "done"}

C5_AnyMalformedInputAborts ==
  (MalformedLoci \/ MalformedReads) => NoOutput

(***************************************************************************)
(* C5, amended: a malformed read record aborts the run only when there is  *)
(* at least one locus, since keys are parsed inside the loop over the      *)
(* loci; a malformed loci row always aborts it.  With no loci rows no key  *)
(* is parsed and the run does not abort: it ends with the header-only      *)
(* output file.                                                            *)
(***************************************************************************)
C5_MalformedInputAborts ==
  /\ (MalformedLoci \/ (Len(lociFile.lines) > 1 /\ MalformedReads)) => NoOutput
  /\ (lociFile.exists /\ Len(lociFile.lines) <= 1) =>
       /\ pc # "crashed"
       /\ pc = "done" => outFile.lines = <<OutputHeader>>

(* A run that got through both loads and died in process on a bad key. *)
C5_Witness ==
  /\ pc = "crashed"
  /\ ~MalformedLoci
  /\ MalformedReads
  /\ Len(loci) > 0
  /\ reads_fd = Len(readsFile.lines) - 1
  /\ ~outFile.exists

(***************************************************************************)
(* C6: every fatal end of a run (wrong argument count, a missing input     *)
(* path, a parse error) comes with a message and a non-zero exit status.   *)
(***************************************************************************)
C6_FatalEndIsNonZero ==
  pc \in {"exited", "crashed"} => (printed # <<>> /\ exit_status # 0)

(***************************************************************************)
(* C7: with an argument count other than 3 positional arguments, or an     *)
(* input path that does not exist, the run ends before any load, annotate  *)
(* or output step; with the right count each missing path is reported,     *)
(* whether or not the other one is missing.                                *)
(***************************************************************************)
C7_ArgFailureStopsBeforeLoad ==
  /\ (num_args # 4 \/ ~lociFile.exists \/ ~readsFile.exists) =>
       /\ pc \in {"check_args", "exited"}
       /\ loci = <<>> /\ reads = <<>> /\ ~outFile.exists
       /\ loci_fd = 0 /\ reads_fd = 0 /\ passes = 0
  /\ pc = "exited" =>
       /\ num_args # 4 \/ ~lociFile.exists \/ ~readsFile.exists
       /\ num_args # 4 => printed = <<"usage">>
       /\ num_args = 4 =>
            /\ ("argv[1] does not exist" \in Range(printed)) <=> ~lociFile.exists
            /\ ("argv[2] does not exist" \in Range(printed)) <=> ~readsFile.exists

(* Both paths missing, both reported. *)
C7_Witness ==
  /\ pc = "exited"
  /\ num_args = 4
  /\ printed = <<"argv[1] does not exist", "argv[2] does not exist">>

(***************************************************************************)
(* C8: the coverage process leaves at each locus does not depend on the    *)
(* order the keys are visited in, nor on the order of the loci rows:       *)
(* process run on any reordering of the entries of reads and of the        *)
(* (position, 0) pairs gives each locus the coverage this run gave it.     *)
(***************************************************************************)
Zeroed(l, perm) ==
  [k \in 1..Len(l) |->
     IF k % 2 = 1 THEN Position(l, perm[(k + 1) \div 2]) ELSE 0]

C8_OrderIndependent ==
  (passes = 1 /\ pc = "output_poscov" /\ ~outFile.exists) =>
    \A rperm \in Permutations(1..Len(reads)) :
      \A lperm \in Permutations(1..NumLoci) :
        LET result == process(Zeroed(loci, lperm),
                              [k \in 1..Len(reads) |-> reads[rperm[k]]])
        IN \A n \in 1..NumLoci :
             /\ Position(result, n) = Position(loci, lperm[n])
             /\ Coverage(result, n) = Coverage(loci, lperm[n])

(* Two keys of different multiplicity cover one of two distinct loci. *)
C8_Witness ==
  /\ passes = 1
  /\ pc = "output_poscov"
  /\ Len(reads) = 2
  /\ reads[1].count # reads[2].count
  /\ NumLoci = 2
  /\ Position(loci, 1) # Position(loci, 2)
  /\ \E n \in 1..2 : Coverage(loci, n) = 3

(***************************************************************************)
(* C9 as stated: process applied a second time to the list it has          *)
(* annotated, with the same reads, leaves every coverage at its value      *)
(* after the first application.                                            *)
(***************************************************************************)
C9_SecondPassChangesNothing ==
  (passes = 2 /\ ProcessReturned) => loci = annotated

(***************************************************************************)
(* C9, amended: process is not idempotent.  Every application adds each    *)
(* locus's covering multiplicities to its coverage again, so after the     *)
(* k-th application every coverage is k times its value after the first    *)
(* (twice it after the second), and the positions are as they were.        *)
(***************************************************************************)
C9_EachPassAddsAgain ==
  (passes >= 1 /\ ProcessReturned) =>
    /\ Len(loci) = Len(annotated)
    /\ \A n \in 1..NumLoci :
         /\ Position(loci, n) = Position(annotated, n)
         /\ Coverage(loci, n) = passes * Coverage(annotated, n)

(* After the second application a coverage of 3 has become 6. *)
C9_Witness ==
  /\ passes = 2
  /\ ProcessReturned
  /\ \E n \in 1..NumLoci :
       Coverage(annotated, n) = 3 /\ Coverage(loci, n) = 6

(***************************************************************************)
(* C10: a step taken inside process keeps the length of the loci list,     *)
(* every position slot and the reads mapping; a coverage slot never        *)
(* decreases and is never negative; and the coverage of a locus the outer  *)
(* loop has moved past is not written again.                               *)
(***************************************************************************)
C10_ProcessFrame ==
  [][ pc = "process" =>
        /\ Len(loci') = Len(loci)
        /\ reads' = reads
        /\ \A n \in 1..NumLoci :
             /\ Position(loci', n) = Position(loci, n)
             /\ Coverage(loci', n) >= Coverage(loci, n)
             /\ Coverage(loci, n) >= 0
             /\ 2 * (n - 1) < each_loci => Coverage(loci', n) = Coverage(loci, n)
      ]_vars

(* The second locus has been written while the first keeps its coverage. *)
C10_Witness ==
  /\ pc = "process"
  /\ passes = 0
  /\ each_loci = 2
  /\ each_key = Len(reads)
  /\ Len(reads) = 2
  /\ loci = <<149, 3, 150, 1>>

=============================================================================
